---- MODULE Spec2Model ----
(***************************************************************************)
(* Model of lib/itunes.js: a promise-returning binding that formats        *)
(* AppleScript commands for the player application, submits them to the    *)
(* node-osascript bridge and shapes the bridge's callback reply into a     *)
(* resolved or rejected promise.                                           *)
(*                                                                         *)
(* JavaScript values are tagged records [t, v].  A promise is a record     *)
(* [state, value, n]; n counts how often it was settled.  Every public     *)
(* operation is one action (the promise executor, run synchronously by     *)
(* the call) and every bridge callback is one action.                      *)
(***************************************************************************)
EXTENDS Integers, Sequences, FiniteSets, TLC

VARIABLES itom, calls, bridge, wide

vars == <<itom, calls, bridge, wide>>

\* Largest number of invocations made in one run when they overlap.
MaxCalls == 2

\* Number of positional slots of the single-track metadata reply.
MetaSlots == 11

(***************************************************************************)
(* JavaScript values                                                       *)
(***************************************************************************)
Undefined == [t |-> "undefined", v |-> ""]
Null == [t |-> "null", v |-> ""]
Str(s) == [t |-> "string", v |-> s]
Num(k) == [t |-> "number", v |-> k]
Bool(b) == [t |-> "boolean", v |-> b]
Arr(s) == [t |-> "array", v |-> s]
Obj(r) == [t |-> "object", v |-> r]
Err(m) == [t |-> "error", v |-> m]

\* typeof x
TypeOf(x) ==
  CASE x.t = "undefined" -> "undefined"
    [] x.t = "string" -> "string"
    [] x.t = "number" -> "number"
    [] x.t = "boolean" -> "boolean"
    [] OTHER -> "object"

\* The truthiness test of `if (x)` and `x ? a : b`.
Truthy(x) ==
  CASE x.t \in {"undefined", "null"} -> FALSE
    [] x.t = "string" -> x.v # ""
    [] x.t = "number" -> x.v # 0
    [] x.t = "boolean" -> x.v
    [] OTHER -> TRUE

Digit(k) ==
  CASE k = 0 -> "0" [] k = 1 -> "1" [] k = 2 -> "2" [] k = 3 -> "3"
    [] k = 4 -> "4" [] k = 5 -> "5" [] k = 6 -> "6" [] k = 7 -> "7"
    [] k = 8 -> "8" [] OTHER -> "9"

RECURSIVE NatStr(_)
NatStr(k) == IF k < 10 THEN Digit(k) ELSE NatStr(k \div 10) \o Digit(k % 10)

\* The text `${x}` puts into a template literal.
ToStr(x) ==
  CASE x.t = "string" -> x.v
    [] x.t = "undefined" -> "undefined"
    [] x.t = "null" -> "null"
    [] x.t = "number" -> NatStr(x.v)
    [] x.t = "boolean" -> IF x.v THEN "true" ELSE "false"
    [] x.t = "error" -> "Error: " \o x.v
    [] OTHER -> "[object Object]"

\* Reading a property or an index of null or undefined throws a TypeError.
Throws(x) == x.t \in {"undefined", "null"}

\* x.f for a property name f; undefined when x has no such property.
Prop(x, f) ==
  CASE x.t = "object" -> IF f \in DOMAIN x.v THEN x.v[f] ELSE Undefined
    [] x.t = "error" -> IF f = "message" THEN Str(x.v) ELSE Undefined
    [] OTHER -> Undefined

\* x[k] for a zero-based index k; undefined past the end or on a non-array.
Index(x, k) ==
  IF x.t = "array" /\ k + 1 \in DOMAIN x.v THEN x.v[k + 1] ELSE Undefined

(***************************************************************************)
(* Promises: the first resolve or reject settles, later ones are ignored.  *)
(***************************************************************************)
NewPromise == [state |-> "pending", value |-> Undefined, n |-> 0]

resolve(p, x) ==
  IF p.state = "pending"
    THEN [state |-> "resolved", value |-> x, n |-> p.n + 1]
    ELSE p

reject(p, x) ==
  IF p.state = "pending"
    THEN [state |-> "rejected", value |-> x, n |-> p.n + 1]
    ELSE p

(***************************************************************************)
(* Bridge requests                                                         *)
(***************************************************************************)
Execute(text) == [kind |-> "execute", text |-> text, params |-> Undefined]
ExecuteFile(file, params) == [kind |-> "executeFile", text |-> file, params |-> params]

\* `tell application "${itom}" to `
Tell(target) == "tell application \"" \o target \o "\" to "

\* What a promise executor leaves behind: the promise, the requests it
\* submitted and the console lines it printed.
Ran(p, cmds, log) == [promise |-> p, cmds |-> cmds, log |-> log]

(***************************************************************************)
(* The promise executors of the public operations (what a call does        *)
(* before it returns its promise).                                         *)
(***************************************************************************)
playPause_exec(target) == Ran(NewPromise, <<Execute(Tell(target) \o "playpause")>>, <<>>)

gotoPrevious_exec(target) == Ran(NewPromise, <<Execute(Tell(target) \o "previous track")>>, <<>>)

gotoNext_exec(target) == Ran(NewPromise, <<Execute(Tell(target) \o "next track")>>, <<>>)

\* A key test that accepts every string.
isValidKey_anyString(name) == TypeOf(name) = "string"

isValidKey(name) == name = Str("name") \/ name = Str("artist") \/ name = Str("album")

get_log(name, isVerbose) ==
  IF TypeOf(isVerbose) = "boolean" /\ Truthy(isVerbose) /\ isValidKey(name)
    THEN <<"Valid string recieved: " \o ToStr(name)>>
    ELSE IF TypeOf(isVerbose) = "boolean" /\ Truthy(isVerbose)
      THEN <<"Invalid string recieved: " \o ToStr(name)>>
      ELSE <<>>

\* A template that always asks for the name.
get_command_nameOnly(target, name) == Tell(target) \o "get the name of the current track"

get_command(target, name) ==
  Tell(target) \o "get the " \o ToStr(name) \o " of the current track"

get_exec(target, name, isVerbose) ==
  IF TypeOf(name) = "string" /\ isValidKey(name)
    THEN Ran(NewPromise, <<Execute(get_command(target, name))>>, get_log(name, isVerbose))
    ELSE Ran(reject(NewPromise, Str("[" \o target \o "] [Error] Invalid input.")),
             <<>>, get_log(name, isVerbose))

metadata_filename(target) ==
  "./applescript/metadata." \o (IF target = "Music" THEN "music." ELSE "") \o "applescript"

getMetadata_exec(target) ==
  Ran(NewPromise, <<ExecuteFile(metadata_filename(target), Undefined)>>, <<>>)

playlist_filename(target) ==
  "./applescript/metadata.playlist." \o (IF target = "Music" THEN "music." ELSE "")
    \o "applescript"

getPlaylistMetadata_exec(target, name) ==
  Ran(NewPromise,
      <<ExecuteFile(playlist_filename(target), Obj([playlistName |-> name]))>>, <<>>)

getPlayerState_exec(target) ==
  Ran(NewPromise, <<Execute(Tell(target) \o "get player state as text")>>, <<>>)

activate_exec(target) == Ran(NewPromise, <<Execute(Tell(target) \o "activate")>>, <<>>)

isNotNull(options, f) == TypeOf(Prop(options, f)) # "undefined"

responseName(options) ==
  IF isNotNull(options, "name")
    THEN "name is \"" \o ToStr(Prop(options, "name")) \o "\""
    ELSE ""

responseArtist(options) ==
  IF isNotNull(options, "artist")
    THEN (IF isNotNull(options, "name") THEN " and " ELSE " ")
           \o "artist is \"" \o ToStr(Prop(options, "artist")) \o "\""
    ELSE ""

responseAlbum(options) ==
  IF isNotNull(options, "album")
    THEN (IF isNotNull(options, "name") \/ isNotNull(options, "artist")
            THEN " and " ELSE " ")
           \o "album is \"" \o ToStr(Prop(options, "album")) \o "\""
    ELSE ""

playSong_command(target, options) ==
  Tell(target) \o "play (first track whose " \o responseName(options) \o " "
    \o responseArtist(options) \o " " \o responseAlbum(options) \o ")"

\* A guard that forgets the album.
hasInfo_nameOrArtist(options) == isNotNull(options, "name") \/ isNotNull(options, "artist")

hasInfo(options) ==
  isNotNull(options, "name") \/ isNotNull(options, "artist") \/ isNotNull(options, "album")

\* Reading options.name of a null or undefined argument throws inside the
\* executor, which rejects the promise with the TypeError.
playSong_exec(target, options) ==
  IF Throws(options)
    THEN Ran(reject(NewPromise, Err("TypeError")), <<>>, <<>>)
    ELSE IF hasInfo(options)
      THEN Ran(NewPromise, <<Execute(playSong_command(target, options))>>, <<>>)
      ELSE Ran(reject(NewPromise,
                 Str("[" \o target \o "] [Error] Not enough info in options, "
                     \o "requires \"name\", \"artist\", or \"album\".")),
               <<>>, <<>>)

playPlaylist_exec(target, name) ==
  Ran(NewPromise, <<Execute(Tell(target) \o "play playlist \"" \o ToStr(name) \o "\"")>>, <<>>)

addToPlaylist_command(target, songObject, playlist) ==
  Tell(target) \o "add (get the location of the first track whose name is \""
    \o ToStr(Prop(songObject, "name")) \o "\" and artist is \""
    \o ToStr(Prop(songObject, "artist")) \o "\" and album is \""
    \o ToStr(Prop(songObject, "album")) \o "\") to playlist \""
    \o ToStr(playlist) \o "\""

addToPlaylist_exec(target, songObject, playlist) ==
  IF Throws(songObject)
    THEN Ran(reject(NewPromise, Err("TypeError")), <<>>, <<>>)
    ELSE Ran(NewPromise,
             <<Execute(addToPlaylist_command(target, songObject, playlist))>>, <<>>)

(***************************************************************************)
(* The bridge callbacks: the promise after the callback has run on the     *)
(* reply (error, output).                                                  *)
(***************************************************************************)
playPause_cb(p, error, output) == resolve(p, Undefined)

gotoPrevious_cb(p, error, output) == resolve(p, Undefined)

gotoNext_cb(p, error, output) == resolve(p, Undefined)

\* resolve(output, error): a promise's resolve takes one argument.
get_cb(p, error, output) == resolve(p, output)

\* A mapping with the slots of album and albumArtist exchanged.
metadata_response_swapped(meta) ==
  Obj([name |-> Index(meta, 0), artist |-> Index(meta, 1), album |-> Index(meta, 4),
       year |-> Index(meta, 3), albumArtist |-> Index(meta, 2), bpm |-> Index(meta, 5),
       composer |-> Index(meta, 6), genre |-> Index(meta, 7), length |-> Index(meta, 8),
       progress |-> Index(meta, 9), trackNumber |-> Index(meta, 10)])

metadata_response(meta) ==
  Obj([name |-> Index(meta, 0), artist |-> Index(meta, 1), album |-> Index(meta, 2),
       year |-> Index(meta, 3), albumArtist |-> Index(meta, 4), bpm |-> Index(meta, 5),
       composer |-> Index(meta, 6), genre |-> Index(meta, 7), length |-> Index(meta, 8),
       progress |-> Index(meta, 9), trackNumber |-> Index(meta, 10)])

\* `if (err) reject(err)` does not return, so the try block runs either way;
\* `typeof meta !== 'null'` is always true.
getMetadata_cb(p, err, meta) ==
  LET p1 == IF Truthy(err) THEN reject(p, err) ELSE p
  IN IF TypeOf(meta) # "undefined" /\ TypeOf(meta) # "null"
       THEN IF Throws(meta)
              THEN reject(p1, Str("No song is currently playing"))
              ELSE resolve(p1, metadata_response(meta))
       ELSE p1

getPlaylistMetadata_cb(p, error, meta) ==
  LET p1 == IF Truthy(error) THEN reject(p, error) ELSE p
  IN resolve(p1, meta)

\* A comparison that ignores the case of the first letter.
isPlaying_anyCase(output) == output \in {Str("playing"), Str("Playing")}

isPlaying(output) == output = Str("playing")

getPlayerState_cb(p, error, output) ==
  LET p1 == IF Truthy(error) THEN reject(p, error) ELSE p
  IN resolve(p1, Bool(isPlaying(output)))

activate_cb(p, error, output) ==
  IF Truthy(error) THEN reject(p, Prop(error, "message")) ELSE resolve(p, Undefined)

playSong_cb(p, error, output) ==
  IF Truthy(error) THEN reject(p, Prop(error, "message")) ELSE resolve(p, Undefined)

playPlaylist_cb(p, error, output) ==
  IF Truthy(error) THEN reject(p, Prop(error, "message")) ELSE resolve(p, Undefined)

addToPlaylist_cb(p, error, output) ==
  IF Truthy(error) THEN reject(p, Prop(error, "message")) ELSE resolve(p, Undefined)

(***************************************************************************)
(* Inputs.  A run is either one invocation drawn from the wide input sets  *)
(* or up to MaxCalls overlapping invocations drawn from the narrow ones.   *)
(***************************************************************************)
Slots == IF wide THEN 1 ELSE MaxCalls

BridgeError == Err("execution error")

FieldNames(w) ==
  IF w THEN {Str("name"), Str("artist"), Str("album"), Str("year"), Str(""),
             Num(7), Null, Undefined}
       ELSE {Str("artist"), Str("genre")}

Verbosity(w) == IF w THEN {Bool(TRUE), Bool(FALSE), Undefined, Str("yes")} ELSE {Undefined}

Present(w) == IF w THEN {Undefined, Str("A"), Str("B")} ELSE {Undefined, Str("A")}

Selectors(w) ==
  { Obj([name |-> n, artist |-> a, album |-> b]) :
      n \in Present(w), a \in Present(w), b \in (IF w THEN Present(w) ELSE {Undefined}) }
    \cup (IF w THEN {Obj([title |-> Str("A")]), Undefined, Null} ELSE {})

Songs(w) ==
  {Obj([name |-> Str("A"), artist |-> Str("B"), album |-> Str("C"), year |-> Num(1999)])}
    \cup (IF w THEN {Obj([name |-> Str("A")]), Undefined} ELSE {})

PlaylistNames(w) == IF w THEN {Str("Mix"), Str("")} ELSE {Str("Mix")}

Track(k) == [i \in 1..k |-> IF i % 3 = 0 THEN Num(i) ELSE Str("v" \o NatStr(i - 1))]

MetaOutputs(w) ==
  IF w THEN {Undefined, Null, Arr(<<>>), Arr(Track(3)), Arr(Track(MetaSlots)),
             Arr([i \in 1..MetaSlots |-> Str("same")]), Arr(Track(MetaSlots + 1))}
       ELSE {Undefined, Arr(Track(MetaSlots))}

ScalarOutputs(w) == IF w THEN {Undefined, Str("Song"), Str("")} ELSE {Str("Song")}

StateOutputs(w) ==
  IF w THEN {Undefined, Str("playing"), Str("paused"), Str("stopped"), Str("Playing"),
             Str("")}
       ELSE {Str("playing"), Str("paused")}

\* The replies <<error, output>> the bridge may hand to a callback.
Replies(w, outputs) ==
  IF w THEN {Null, BridgeError} \X outputs
       ELSE {<<Null, o>> : o \in outputs} \cup {<<BridgeError, Undefined>>}

(***************************************************************************)
(* State                                                                   *)
(***************************************************************************)
Init ==
  /\ itom \in {"Music", "iTunes"}
  /\ calls = <<>>
  /\ bridge = <<>>
  /\ wide \in BOOLEAN

\* An operation is invoked: its executor runs, the requests it submitted
\* are in flight at the bridge, and the caller holds the promise.
Invoke(op, args, ran) ==
  LET id == Len(calls) + 1
  IN /\ Len(calls) < Slots
     /\ calls' = Append(calls,
          [op |-> op, args |-> args, target |-> itom, promise |-> ran.promise,
           cmds |-> ran.cmds, log |-> ran.log, replies |-> 0,
           err |-> Undefined, out |-> Undefined])
     /\ bridge' = bridge \o [k \in 1..Len(ran.cmds) |-> [owner |-> id, cmd |-> ran.cmds[k]]]
     /\ UNCHANGED <<itom, wide>>

\* The invocation whose callback the bridge holds for its k-th request.
\* A bridge that keeps one callback, that of the latest request.
Owner_latest(k) == bridge[Len(bridge)].owner

Owner(k) == bridge[k].owner

Remove(s, k) == [j \in 1..(Len(s) - 1) |-> IF j < k THEN s[j] ELSE s[j + 1]]

\* The bridge completes its k-th request with <<error, output>> and the
\* callback leaves the promise as p.
Complete(k, reply, p) ==
  /\ calls' = [calls EXCEPT ![Owner(k)] =
       [@ EXCEPT !.promise = p, !.replies = @ + 1, !.err = reply[1], !.out = reply[2]]]
  /\ bridge' = Remove(bridge, k)
  /\ UNCHANGED <<itom, wide>>

Waiting(op) == {k \in 1..Len(bridge) : calls[Owner(k)].op = op}

(***************************************************************************)
(* Actions: the public operations                                          *)
(***************************************************************************)
playPause == Invoke("playPause", <<>>, playPause_exec(itom))

gotoPrevious == Invoke("gotoPrevious", <<>>, gotoPrevious_exec(itom))

gotoNext == Invoke("gotoNext", <<>>, gotoNext_exec(itom))

get ==
  \E name \in FieldNames(wide), isVerbose \in Verbosity(wide) :
    Invoke("get", <<name, isVerbose>>, get_exec(itom, name, isVerbose))

getMetadata == Invoke("getMetadata", <<>>, getMetadata_exec(itom))

getPlaylistMetadata ==
  \E name \in PlaylistNames(wide) :
    Invoke("getPlaylistMetadata", <<name>>, getPlaylistMetadata_exec(itom, name))

getPlayerState == Invoke("getPlayerState", <<>>, getPlayerState_exec(itom))

activate == Invoke("activate", <<>>, activate_exec(itom))

playSong ==
  \E options \in Selectors(wide) :
    Invoke("playSong", <<options>>, playSong_exec(itom, options))

playPlaylist ==
  \E name \in PlaylistNames(wide) :
    Invoke("playPlaylist", <<name>>, playPlaylist_exec(itom, name))

addToPlaylist ==
  \E songObject \in Songs(wide), playlist \in PlaylistNames(wide) :
    Invoke("addToPlaylist", <<songObject, playlist>>,
           addToPlaylist_exec(itom, songObject, playlist))

(***************************************************************************)
(* Actions: the bridge runs a callback, in whatever order it completes     *)
(* the requests in flight.                                                 *)
(***************************************************************************)
playPause_reply ==
  \E k \in Waiting("playPause"), r \in Replies(wide, {Undefined}) :
    Complete(k, r, playPause_cb(calls[Owner(k)].promise, r[1], r[2]))

gotoPrevious_reply ==
  \E k \in Waiting("gotoPrevious"), r \in Replies(wide, {Undefined}) :
    Complete(k, r, gotoPrevious_cb(calls[Owner(k)].promise, r[1], r[2]))

gotoNext_reply ==
  \E k \in Waiting("gotoNext"), r \in Replies(wide, {Undefined}) :
    Complete(k, r, gotoNext_cb(calls[Owner(k)].promise, r[1], r[2]))

get_reply ==
  \E k \in Waiting("get"), r \in Replies(wide, ScalarOutputs(wide)) :
    Complete(k, r, get_cb(calls[Owner(k)].promise, r[1], r[2]))

getMetadata_reply ==
  \E k \in Waiting("getMetadata"), r \in Replies(wide, MetaOutputs(wide)) :
    Complete(k, r, getMetadata_cb(calls[Owner(k)].promise, r[1], r[2]))

getPlaylistMetadata_reply ==
  \E k \in Waiting("getPlaylistMetadata"), r \in Replies(wide, MetaOutputs(wide)) :
    Complete(k, r, getPlaylistMetadata_cb(calls[Owner(k)].promise, r[1], r[2]))

getPlayerState_reply ==
  \E k \in Waiting("getPlayerState"), r \in Replies(wide, StateOutputs(wide)) :
    Complete(k, r, getPlayerState_cb(calls[Owner(k)].promise, r[1], r[2]))

activate_reply ==
  \E k \in Waiting("activate"), r \in Replies(wide, {Undefined}) :
    Complete(k, r, activate_cb(calls[Owner(k)].promise, r[1], r[2]))

playSong_reply ==
  \E k \in Waiting("playSong"), r \in Replies(wide, {Undefined}) :
    Complete(k, r, playSong_cb(calls[Owner(k)].promise, r[1], r[2]))

playPlaylist_reply ==
  \E k \in Waiting("playPlaylist"), r \in Replies(wide, {Undefined}) :
    Complete(k, r, playPlaylist_cb(calls[Owner(k)].promise, r[1], r[2]))

addToPlaylist_reply ==
  \E k \in Waiting("addToPlaylist"), r \in Replies(wide, {Undefined}) :
    Complete(k, r, addToPlaylist_cb(calls[Owner(k)].promise, r[1], r[2]))

Next ==
  \/ playPause \/ gotoPrevious \/ gotoNext \/ get \/ getMetadata
  \/ getPlaylistMetadata \/ getPlayerState \/ activate \/ playSong
  \/ playPlaylist \/ addToPlaylist
  \/ playPause_reply \/ gotoPrevious_reply \/ gotoNext_reply \/ get_reply
  \/ getMetadata_reply \/ getPlaylistMetadata_reply \/ getPlayerState_reply
  \/ activate_reply \/ playSong_reply \/ playPlaylist_reply \/ addToPlaylist_reply

Spec == Init /\ [][Next]_vars

(***************************************************************************)
(* Properties                                                              *)
(***************************************************************************)
Ids == 1..Len(calls)

Replied(i) == calls[i].replies > 0

Settled(i) == calls[i].promise.state \in {"resolved", "rejected"}

InFlight(i) == Cardinality({k \in 1..Len(bridge) : bridge[k].owner = i})

RejectedWith(i, x) == calls[i].promise = [state |-> "rejected", value |-> x, n |-> 1]

ResolvedWith(i, x) == calls[i].promise = [state |-> "resolved", value |-> x, n |-> 1]

\* C1: every invocation whose bridge callback has run, or that submitted
\* nothing, is settled (resolved or rejected) and was settled exactly once.
C1_SettledExactlyOnce ==
  \A i \in Ids :
    (Replied(i) \/ calls[i].cmds = <<>>) => (Settled(i) /\ calls[i].promise.n = 1)

\* C2: getMetadata whose callback got no error and an undefined or empty
\* reply is rejected with 'No song is currently playing'.
C2_NoTrackRejects ==
  \A i \in Ids :
    ( /\ calls[i].op = "getMetadata"
      /\ Replied(i)
      /\ ~Truthy(calls[i].err)
      /\ calls[i].out \in {Undefined, Arr(<<>>)} )
      => RejectedWith(i, Str("No song is currently playing"))

ResultBearing ==
  {"get", "getMetadata", "getPlaylistMetadata", "getPlayerState", "activate",
   "playSong", "playPlaylist", "addToPlaylist"}

\* C3: a result-bearing operation whose callback got a bridge error ends
\* rejected, never resolved.
C3_BridgeErrorRejects ==
  \A i \in Ids :
    (calls[i].op \in ResultBearing /\ Replied(i) /\ Truthy(calls[i].err))
      => calls[i].promise.state = "rejected"

SupportedFields == {Str("name"), Str("artist"), Str("album")}

\* C4: get with a field outside {name, artist, album}, whatever verbose is,
\* is rejected with the invalid-input error and submits nothing to the bridge.
C4_InvalidFieldRejected ==
  \A i \in Ids :
    (calls[i].op = "get" /\ calls[i].args[1] \notin SupportedFields)
      => /\ RejectedWith(i, Str("[" \o itom \o "] [Error] Invalid input."))
         /\ calls[i].cmds = <<>>
         /\ InFlight(i) = 0
         /\ ~Replied(i)

C4_Witness ==
  \E i \in Ids :
    /\ calls[i].op = "get"
    /\ calls[i].args = <<Str("year"), Bool(TRUE)>>
    /\ calls[i].promise.state = "rejected"

\* The fields of a selector object that carry a value.
PresentFields(sel) ==
  {f \in {"name", "artist", "album"} : f \in DOMAIN sel.v /\ sel.v[f] # Undefined}

IsSelector(i) == calls[i].op = "playSong" /\ calls[i].args[1].t = "object"

\* C5: playSong with a selector object carrying none of name, artist, album
\* is rejected with the insufficient-selector error and submits nothing;
\* with at least one of them it submits exactly one command.
C5_SelectorGuard ==
  \A i \in Ids :
    IsSelector(i) =>
      IF PresentFields(calls[i].args[1]) = {}
        THEN /\ RejectedWith(i, Str("[" \o itom \o "] [Error] Not enough info in options, requires \"name\", \"artist\", or \"album\"."))
             /\ calls[i].cmds = <<>>
             /\ InFlight(i) = 0
             /\ ~Replied(i)
        ELSE /\ Len(calls[i].cmds) = 1
             /\ calls[i].replies + InFlight(i) = 1

C5_Witness ==
  \E i, j \in Ids :
    /\ IsSelector(i) /\ PresentFields(calls[i].args[1]) = {}
    /\ calls[i].promise.state = "rejected"
    /\ IsSelector(j) /\ PresentFields(calls[j].args[1]) # {}
    /\ Len(calls[j].cmds) = 1

Clause(sel, f) == f \o " is \"" \o sel.v[f].v \o "\""

RECURSIVE JoinAnd(_)
JoinAnd(clauses) ==
  IF clauses = <<>> THEN ""
  ELSE IF Len(clauses) = 1 THEN clauses[1]
  ELSE clauses[1] \o " and " \o JoinAnd(Tail(clauses))

\* The clauses of the present fields in the order name, artist, album,
\* joined by ' and '.
ExactPredicate(sel) ==
  LET fs == SelectSeq(<<"name", "artist", "album">>, LAMBDA f : f \in PresentFields(sel))
  IN JoinAnd([k \in 1..Len(fs) |-> Clause(sel, fs[k])])

\* C6: the command playSong submits is 'tell application "<target>" to play
\* (first track whose <predicate>)' with the predicate exactly the present
\* clauses joined by ' and ', without space artifacts.
C6_ExactPredicate ==
  \A i \in Ids :
    (IsSelector(i) /\ PresentFields(calls[i].args[1]) # {})
      => /\ Len(calls[i].cmds) = 1
         /\ calls[i].cmds[1].text =
              "tell application \"" \o itom \o "\" to play (first track whose "
                \o ExactPredicate(calls[i].args[1]) \o ")"

\* C7: get with a field of {name, artist, album} submits exactly one command,
\* the template with the field in it, and resolves with the scalar the
\* bridge replies with, unmodified.
C7_GetSubmitsAndResolves ==
  \A i \in Ids :
    (calls[i].op = "get" /\ calls[i].args[1] \in SupportedFields)
      => /\ calls[i].cmds =
              <<[kind |-> "execute", params |-> Undefined,
                 text |-> "tell application \"" \o itom \o "\" to get the "
                            \o calls[i].args[1].v \o " of the current track"]>>
         /\ calls[i].replies + InFlight(i) = 1
         /\ (Replied(i) /\ calls[i].out.t = "string")
              => ResolvedWith(i, calls[i].out)

C7_Witness ==
  \E i \in Ids :
    /\ calls[i].op = "get"
    /\ calls[i].args[1] = Str("album")
    /\ Replied(i)
    /\ calls[i].out = Str("Song")
    /\ calls[i].promise.state = "resolved"

MetaFields ==
  <<"name", "artist", "album", "year", "albumArtist", "bpm", "composer", "genre",
    "length", "progress", "trackNumber">>

\* C8: getMetadata whose callback got no error and a sequence of exactly 11
\* values resolves with the record that has the 11 fields, each equal to
\* the value at its position, and no other field.
C8_PositionalRecord ==
  \A i \in Ids :
    ( /\ calls[i].op = "getMetadata"
      /\ Replied(i)
      /\ ~Truthy(calls[i].err)
      /\ calls[i].out.t = "array"
      /\ Len(calls[i].out.v) = MetaSlots )
      => /\ calls[i].promise.state = "resolved"
         /\ calls[i].promise.n = 1
         /\ calls[i].promise.value.t = "object"
         /\ DOMAIN calls[i].promise.value.v = {MetaFields[k] : k \in 1..MetaSlots}
         /\ \A k \in 1..MetaSlots :
              calls[i].promise.value.v[MetaFields[k]] = calls[i].out.v[k]

C8_Witness ==
  \E i \in Ids :
    /\ calls[i].op = "getMetadata"
    /\ Replied(i)
    /\ calls[i].err = Null
    /\ calls[i].out = Arr(Track(MetaSlots))
    /\ calls[i].promise.state = "resolved"

\* C9: getPlayerState whose callback got no error and a string resolves
\* with true if the string is exactly 'playing' and with false otherwise.
C9_PlayingIffExact ==
  \A i \in Ids :
    ( /\ calls[i].op = "getPlayerState"
      /\ Replied(i)
      /\ ~Truthy(calls[i].err)
      /\ calls[i].out.t = "string" )
      => ResolvedWith(i, Bool(calls[i].out.v = "playing"))

C9_Witness ==
  \E i \in Ids :
    /\ calls[i].op = "getPlayerState"
    /\ Replied(i)
    /\ calls[i].err = Null
    /\ calls[i].out = Str("Playing")
    /\ calls[i].promise = [state |-> "resolved", value |-> Bool(FALSE), n |-> 1]

\* What the executor of an invocation does when it runs on its own.
AloneExec(c) ==
  CASE c.op = "playPause" -> playPause_exec(c.target)
    [] c.op = "gotoPrevious" -> gotoPrevious_exec(c.target)
    [] c.op = "gotoNext" -> gotoNext_exec(c.target)
    [] c.op = "get" -> get_exec(c.target, c.args[1], c.args[2])
    [] c.op = "getMetadata" -> getMetadata_exec(c.target)
    [] c.op = "getPlaylistMetadata" -> getPlaylistMetadata_exec(c.target, c.args[1])
    [] c.op = "getPlayerState" -> getPlayerState_exec(c.target)
    [] c.op = "activate" -> activate_exec(c.target)
    [] c.op = "playSong" -> playSong_exec(c.target, c.args[1])
    [] c.op = "playPlaylist" -> playPlaylist_exec(c.target, c.args[1])
    [] OTHER -> addToPlaylist_exec(c.target, c.args[1], c.args[2])

\* The promise of an invocation that ran on its own and got the reply
\* recorded in c, if any.
AloneOutcome(c) ==
  LET p == AloneExec(c).promise
  IN IF c.replies = 0 THEN p
     ELSE CASE c.op = "playPause" -> playPause_cb(p, c.err, c.out)
            [] c.op = "gotoPrevious" -> gotoPrevious_cb(p, c.err, c.out)
            [] c.op = "gotoNext" -> gotoNext_cb(p, c.err, c.out)
            [] c.op = "get" -> get_cb(p, c.err, c.out)
            [] c.op = "getMetadata" -> getMetadata_cb(p, c.err, c.out)
            [] c.op = "getPlaylistMetadata" -> getPlaylistMetadata_cb(p, c.err, c.out)
            [] c.op = "getPlayerState" -> getPlayerState_cb(p, c.err, c.out)
            [] c.op = "activate" -> activate_cb(p, c.err, c.out)
            [] c.op = "playSong" -> playSong_cb(p, c.err, c.out)
            [] c.op = "playPlaylist" -> playPlaylist_cb(p, c.err, c.out)
            [] OTHER -> addToPlaylist_cb(p, c.err, c.out)

\* C10: whatever is in flight and in whatever order the bridge completes
\* it, every invocation submits at most one command, receives exactly the
\* replies to its own commands, addresses the one target application, and
\* has the outcome it would have alone with the same reply.
C10_Independent ==
  \A i \in Ids :
    /\ Len(calls[i].cmds) <= 1
    /\ calls[i].replies + InFlight(i) = Len(calls[i].cmds)
    /\ calls[i].target = itom
    /\ calls[i].cmds = AloneExec(calls[i]).cmds
    /\ calls[i].promise = AloneOutcome(calls[i])

\* A later invocation was completed, rejected, while an earlier one is
\* still in flight.
C10_Witness ==
  \E i, j \in Ids :
    /\ i < j
    /\ InFlight(i) = 1
    /\ Replied(j)
    /\ calls[j].promise.state = "rejected"

====
